---- MODULE Spec2Model ----
(***************************************************************************)
(* External scanner of tree-sitter-neon (src/tree-sitter-neon/src/         *)
(* scanner.c): the scan function over a host cursor, and the               *)
(* serialize / deserialize codec of the scanner's brace_depth.             *)
(*                                                                         *)
(* The cursor (TSLexer) is the host's object: its position, its mark_end   *)
(* position and its result_symbol slot are fields the scanner reads and    *)
(* writes through lexer->...; a field the scanner does not write keeps     *)
(* the value it had when the call was entered.                             *)
(***************************************************************************)
EXTENDS Integers, Sequences, FiniteSets

(* ---------------------------------------------------------------- bounds *)

\* Longest input text of the general specification.
MaxLen == 3

\* Longest input text of the specification with the codec, CodecSpec.
MaxCodecLen == 2

\* Longest literal run t1, t2 of the string bodies of SeqSpec.
MaxRun == 1

\* Most InterpolationOpen reports FlagSpec counts without a close between.
MaxOpens == 2

\* Most InterpolationClose reports FlagSpec counts before brace_depth is 0 again.
MaxCloses == 2

(* ------------------------------------------------------ program constants *)

STRING_CONTENT == 0
STRING_INTERPOLATION_START == 1
STRING_INTERPOLATION_END == 2

\* Character codes the scanner compares lexer->lookahead with.
EndOfInput == 0
Quote == 34
Dollar == 36
Backslash == 92
LBrace == 123
RBrace == 125
\* Any character the scanner has no case for.
Letter == 97

SizeofInt == 4

TokenTypes == {STRING_CONTENT, STRING_INTERPOLATION_START, STRING_INTERPOLATION_END}

Chars == {Quote, Dollar, Backslash, LBrace, RBrace, Letter}

RECURSIVE SeqsUpTo(_, _)
SeqsUpTo(S, n) ==
  IF n = 0 THEN {<< >>}
  ELSE LET shorter == SeqsUpTo(S, n - 1)
       IN shorter \cup {Append(s, c) : s \in {t \in shorter : Len(t) = n - 1}, c \in S}

Texts == SeqsUpTo(Chars, MaxLen)

CodecTexts == SeqsUpTo(Chars, MaxCodecLen)

(* ------------------------------------------------------------------ state *)

VARIABLES
  text,           \* the characters the host's cursor reads from
  pos,            \* cursor: number of characters advanced over (0-based position)
  markEnd,        \* cursor: position of the last mark_end
  result_symbol,  \* cursor: lexer->result_symbol
  brace_depth,    \* scanner->brace_depth of the live session
  buffer,         \* the host's serialization buffer (bytes written by serialize)
  op,             \* the last operation called
  ret,            \* return value of the last scan
  valid_symbols,  \* the accepted kinds passed to the last scan
  tokStart,       \* cursor position (the token's start) when the last scan was entered
  result_symbol0, \* result_symbol when the last operation was entered
  brace_depth0,   \* brace_depth when the last operation was entered
  length,         \* length argument of the last deserialize
  saved,          \* brace_depth of the session the buffer was serialized from
  iters,          \* iterations of the content loop in the last scan
  written,        \* whether the last scan assigned lexer->result_symbol
  fellAt,         \* cursor position at which the last scan reached line 62 (-1: it did not)
  phase,          \* SeqSpec: scans of the string body made so far
  toks,           \* SeqSpec: what each scan of the string body reported
  twin,           \* TwinSpec: the session the buffer was serialized from, and its cursor
  opens,          \* FlagSpec: scans that reported InterpolationOpen since the last reported close
  closes          \* FlagSpec: scans that reported InterpolationClose since brace_depth was last 0

vars == << text, pos, markEnd, result_symbol, brace_depth, buffer, op, ret,
           valid_symbols, tokStart, result_symbol0, brace_depth0,
           length, saved, iters, written, fellAt, phase, toks, twin, opens,
           closes >>

(* ----------------------------------------------------------- the cursor *)

\* lexer->lookahead at position p of txt: the character there, 0 at end of input.
Lookahead(txt, p) == IF p < Len(txt) THEN txt[p + 1] ELSE EndOfInput

\* lexer->advance(lexer, false)
Advance(c) == [c EXCEPT !.pos = @ + 1]

\* lexer->mark_end(lexer)
MarkEnd(c) == [c EXCEPT !.mark = c.pos]

\* The call's working state when scan is entered: the host has seated the
\* cursor at p, where the token starts and nothing is committed yet.
Enter(p, sym, depth) ==
  [pos |-> p, mark |-> p, sym |-> sym, depth |-> depth,
   ret |-> FALSE, done |-> FALSE, has_content |-> FALSE, iters |-> 0,
   written |-> FALSE, fell |-> -1]

(* ------------------------------------------------------------------ scan *)

\* A variant of line 56 that counts the openers: brace_depth++.
OpenDepthCounting(d) == d + 1

\* Line 56: scanner->brace_depth = 1.
OpenDepth(d) == 1

\* Line 64: scanner->brace_depth > 0.
Inside(d) == d > 0

\* Lines 48-60: interpolation start.
ScanInterpolationStart(txt, vs, c) ==
  IF STRING_INTERPOLATION_START \in vs /\ Lookahead(txt, c.pos) = Dollar
  THEN LET c1 == Advance(c)
       IN IF Lookahead(txt, c1.pos) = LBrace
          THEN [MarkEnd(Advance(c1)) EXCEPT
                  !.sym = STRING_INTERPOLATION_START, !.written = TRUE,
                  !.depth = OpenDepth(c.depth),
                  !.ret = TRUE, !.done = TRUE]
          ELSE c1
  ELSE c

\* Lines 62-71: interpolation end.
ScanInterpolationEnd(txt, vs, c) ==
  IF STRING_INTERPOLATION_END \in vs
     /\ Lookahead(txt, c.pos) = RBrace /\ Inside(c.depth)
  THEN [MarkEnd(Advance(c)) EXCEPT
          !.depth = 0,
          !.sym = STRING_INTERPOLATION_END, !.written = TRUE,
          !.ret = TRUE, !.done = TRUE]
  ELSE c

\* Line 79: stop at end of string.
AtStringEnd(ch) == ch = Quote \/ ch = EndOfInput

\* A variant of line 84 that does not stop at the escape introducer.
AtEscapeNever(ch) == FALSE

\* Line 84: stop at escape sequence.
AtEscape(ch) == ch = Backslash

\* A variant of line 93 that never sees the opener.
OpensInterpolationNever(ch) == FALSE

\* Line 93: the character after a `$` opens an interpolation.
OpensInterpolation(ch) == ch = LBrace

\* A variant of lines 89-100 that moves back after the peek and consumes the
\* `$` on a second iteration: two iterations for one character.
RECURSIVE ContentLoopRescans(_, _, _)
ContentLoopRescans(txt, c0, hc) ==
  LET c  == [c0 EXCEPT !.iters = @ + 1]
      ch == Lookahead(txt, c.pos)
  IN IF AtStringEnd(ch) THEN [c EXCEPT !.has_content = hc]
     ELSE IF ch = Backslash THEN [c EXCEPT !.has_content = hc]
     ELSE IF ch = Dollar
     THEN LET c1 == Advance(MarkEnd(c))
          IN IF Lookahead(txt, c1.pos) = LBrace
             THEN [c1 EXCEPT !.has_content = hc, !.ret = hc, !.done = TRUE]
             ELSE ContentLoopRescans(txt, [c1 EXCEPT !.iters = @ + 1], TRUE)
     ELSE ContentLoopRescans(txt, Advance(c), TRUE)

\* Lines 77-104: the content loop, entered with has_content = hc.
RECURSIVE ContentLoop(_, _, _)
ContentLoop(txt, c0, hc) ==
  LET c  == [c0 EXCEPT !.iters = @ + 1]
      ch == Lookahead(txt, c.pos)
  IN IF AtStringEnd(ch) THEN [c EXCEPT !.has_content = hc]
     ELSE IF AtEscape(ch) THEN [c EXCEPT !.has_content = hc]
     ELSE IF ch = Dollar
     THEN LET c1 == Advance(MarkEnd(c))
          IN IF OpensInterpolation(Lookahead(txt, c1.pos))
             THEN [c1 EXCEPT !.has_content = hc, !.ret = hc, !.done = TRUE]
             ELSE ContentLoop(txt, c1, TRUE)
     ELSE ContentLoop(txt, Advance(c), TRUE)

\* A variant of lines 106-110 without the has_content test.
AfterLoopAlwaysEmits(c) ==
  [MarkEnd(c) EXCEPT !.sym = STRING_CONTENT, !.written = TRUE,
                     !.ret = TRUE, !.done = TRUE]

\* Lines 106-110: after the loop.
AfterLoop(c) ==
  IF c.has_content
  THEN [MarkEnd(c) EXCEPT !.sym = STRING_CONTENT, !.written = TRUE,
                          !.ret = TRUE, !.done = TRUE]
  ELSE c

\* Lines 73-111: string content.
ScanContent(txt, vs, c) ==
  IF STRING_CONTENT \in vs
  THEN LET l == ContentLoop(txt, c, FALSE)
       IN IF l.done THEN l ELSE AfterLoop(l)
  ELSE c

\* Lines 41-114: tree_sitter_neon_external_scanner_scan.
ScanCode(txt, vs, c) ==
  LET s == ScanInterpolationStart(txt, vs, c)
      a == IF s.done THEN s ELSE [s EXCEPT !.fell = s.pos]
      b == IF a.done THEN a ELSE ScanInterpolationEnd(txt, vs, a)
      d == IF b.done THEN b ELSE ScanContent(txt, vs, b)
  IN IF d.done THEN d ELSE [d EXCEPT !.ret = FALSE, !.done = TRUE]

(* ----------------------------------------------------------------- codec *)

\* The bytes of an int as memcpy sees them (least significant first).
RECURSIVE IntBytes(_, _)
IntBytes(v, n) ==
  IF n = 0 THEN << >> ELSE << v % 256 >> \o IntBytes(v \div 256, n - 1)

\* The bytes in the other order.
RECURSIVE IntBytesReversed(_, _)
IntBytesReversed(v, n) ==
  IF n = 0 THEN << >> ELSE IntBytesReversed(v \div 256, n - 1) \o << v % 256 >>

\* The int memcpy builds from the first n bytes of b.
RECURSIVE BytesInt(_, _)
BytesInt(b, n) ==
  IF n = 0 THEN 0 ELSE b[1] + 256 * BytesInt(Tail(b), n - 1)

\* A variant of line 29 that writes the bytes in the order deserialize does
\* not read them in.
SerializeBytesReversed(d) == IntBytesReversed(d, SizeofInt)

\* Line 29: memcpy(buffer, &scanner->brace_depth, sizeof(int)).
SerializeBytes(d) == IntBytes(d, SizeofInt)

\* A variant of line 36 with the length test off by the size of an int.
DeserializeDepthShort(d, b, len) ==
  IF len > SizeofInt THEN BytesInt(b, SizeofInt) ELSE d

\* Lines 36-38: the brace_depth deserialize leaves in a session holding d.
DeserializeDepth(d, b, len) ==
  IF len > 0 THEN BytesInt(b, SizeofInt) ELSE d

(* --------------------------------------------------------------- actions *)

\* Lines 15-19: tree_sitter_neon_external_scanner_create, the session's state.
CreateDepth == 0

\* No other session is kept beside the live one.
NoTwin == [live |-> FALSE]

\* A session has been created; the host's cursor is over the text txt and its
\* result slot holds whatever its earlier use left there.
InitOver(txts) ==
  /\ text \in txts
  /\ pos = 0
  /\ markEnd = 0
  /\ result_symbol \in TokenTypes
  /\ brace_depth = CreateDepth
  /\ buffer = << >>
  /\ op = "create"
  /\ ret = FALSE
  /\ valid_symbols = {}
  /\ tokStart = 0
  /\ result_symbol0 = result_symbol
  /\ brace_depth0 = CreateDepth
  /\ length = 0
  /\ saved = 0
  /\ iters = 0
  /\ written = FALSE
  /\ fellAt = -1
  /\ phase = 0
  /\ toks = << >>
  /\ twin = NoTwin
  /\ opens = 0
  /\ closes = 0

Init == InitOver(Texts)

\* One call of scan, entered with the cursor at position p and accepted kinds vs.
ScanAt(p, vs) ==
  \E c \in {ScanCode(text, vs, Enter(p, result_symbol, brace_depth))} :
     /\ pos' = c.pos
     /\ markEnd' = c.mark
     /\ result_symbol' = c.sym
     /\ brace_depth' = c.depth
     /\ ret' = c.ret
     /\ iters' = c.iters
     /\ written' = c.written
     /\ fellAt' = c.fell
     /\ op' = "scan"
     /\ valid_symbols' = vs
     /\ tokStart' = p
     /\ result_symbol0' = result_symbol
     /\ brace_depth0' = brace_depth
     /\ UNCHANGED << text, buffer, length, saved >>

\* The host calls scan anywhere in its text with any accepted kinds.
Scan ==
  /\ \E p \in 0..Len(text), vs \in SUBSET TokenTypes : ScanAt(p, vs)
  /\ UNCHANGED << phase, toks, twin, opens, closes >>

Next == Scan

Spec == Init /\ [][Next]_vars

(* ------------------------------------------------ sessions and the codec *)

\* Lines 26-32: tree_sitter_neon_external_scanner_serialize.
Serialize ==
  /\ buffer' = SerializeBytes(brace_depth)
  /\ saved' = brace_depth
  /\ op' = "serialize"
  /\ brace_depth0' = brace_depth
  /\ UNCHANGED << text, pos, markEnd, result_symbol, brace_depth, ret,
                  valid_symbols, tokStart, result_symbol0, length,
                  iters, written, fellAt, phase, toks, twin, opens, closes >>

\* Lines 34-39: tree_sitter_neon_external_scanner_deserialize, called with a
\* zero length or with the buffer serialize wrote.
Deserialize ==
  /\ \E len \in {0, Len(buffer)} :
       /\ length' = len
       /\ brace_depth' = DeserializeDepth(brace_depth, buffer, len)
  /\ op' = "deserialize"
  /\ brace_depth0' = brace_depth
  /\ UNCHANGED << text, pos, markEnd, result_symbol, buffer, ret,
                  valid_symbols, tokStart, result_symbol0, saved,
                  iters, written, fellAt, phase, toks, twin, opens, closes >>

\* Lines 15-24: the host destroys the session and creates a new one.
Create ==
  /\ brace_depth' = CreateDepth
  /\ op' = "create"
  /\ brace_depth0' = brace_depth
  /\ UNCHANGED << text, pos, markEnd, result_symbol, buffer, ret,
                  valid_symbols, tokStart, result_symbol0, length,
                  saved, iters, written, fellAt, phase, toks, twin, opens, closes >>

CodecInit == InitOver(CodecTexts)

CodecNext == Scan \/ Serialize \/ Deserialize \/ Create

CodecSpec == CodecInit /\ [][CodecNext]_vars

(* ------------------------------------- one string body, scanned in order *)

\* Characters of a literal run: no quote, no backslash, no `$`.
RunChars == {LBrace, RBrace, Letter}

Runs == {r \in SeqsUpTo(RunChars, MaxRun) : Len(r) >= 1}

\* The interpolated expression, which the grammar's other rules parse.
Expressions == {<< Letter >>, << Letter, Letter >>}

\* String bodies t1 ${ e } t2 followed by the closing quote.
Bodies ==
  {t1 \o << Dollar, LBrace >> \o e \o << RBrace >> \o t2 \o << Quote >> :
     t1 \in Runs, e \in Expressions, t2 \in Runs}

\* Where the parts of a body lie: the first `$`, and the `}` that ends e.
OpenAt(txt) == CHOOSE i \in 0..Len(txt) : txt[i + 1] = Dollar
CloseAt(txt) ==
  CHOOSE i \in (OpenAt(txt) + 2)..Len(txt) :
    /\ txt[i + 1] = RBrace
    /\ \A j \in (OpenAt(txt) + 2)..(i - 1) : txt[j + 1] = Letter

\* The kind the grammar asks for at each step of the body.
Wanted(ph) ==
  CASE ph = 0 -> STRING_CONTENT
    [] ph = 1 -> STRING_INTERPOLATION_START
    [] ph = 3 -> STRING_INTERPOLATION_END
    [] ph = 4 -> STRING_CONTENT

SeqInit == InitOver(Bodies)

\* The host scans where the previous token's committed span ended (after the
\* expression: where its own rules stopped), accepting at least the wanted kind.
SeqScan ==
  /\ phase \in {0, 1, 3, 4}
  /\ \E vs \in SUBSET TokenTypes :
       /\ Wanted(phase) \in vs
       /\ ScanAt(IF phase = 3 THEN pos ELSE markEnd, vs)
  /\ phase' = phase + 1
  /\ toks' = Append(toks, [ret |-> ret', sym |-> result_symbol',
                           from |-> tokStart', to |-> markEnd',
                           depth |-> brace_depth'])
  /\ UNCHANGED << twin, opens, closes >>

\* The grammar's own rules parse the expression e, up to its closing brace.
HostParsesExpression ==
  /\ phase = 2
  /\ pos' = CloseAt(text)
  /\ op' = "host"
  /\ phase' = 3
  /\ UNCHANGED << text, markEnd, result_symbol, brace_depth, buffer, ret,
                  valid_symbols, tokStart, result_symbol0, brace_depth0,
                  length, saved, iters, written, fellAt, toks, twin, opens,
                  closes >>

SeqNext == SeqScan \/ HostParsesExpression

SeqSpec == SeqInit /\ [][SeqNext]_vars

(* ---------------------------------------------------------------- claims *)

\* The last call was a scan that reported the kind k.
Emitted(k) == op = "scan" /\ ret /\ result_symbol = k

\* The last call was a scan that declined.
Declined == op = "scan" /\ ~ret

\* The scan was entered with the cursor at the two characters `${`.
AtOpener(p) == Lookahead(text, p) = Dollar /\ Lookahead(text, p + 1) = LBrace

\* C1: whenever scan declines, the cursor is where it was when the call was
\* entered. The code advances over a `$` to peek and never moves back, so
\* this is violated.
C1_DeclineLeavesCursor == Declined => pos = tokStart

\* C2: scan reports only accepted kinds and advances only for accepted
\* kinds; with nothing accepted it declines and changes nothing.
C2_OnlyAcceptedKinds ==
  op = "scan" =>
    /\ ret => result_symbol \in valid_symbols
    /\ valid_symbols \subseteq {STRING_INTERPOLATION_END} =>
         \/ pos = tokStart
         \/ Emitted(STRING_INTERPOLATION_END) /\ pos = tokStart + 1
    /\ STRING_CONTENT \notin valid_symbols => pos <= tokStart + 2
    /\ valid_symbols = {} =>
         /\ ~ret
         /\ pos = tokStart
         /\ markEnd = tokStart
         /\ result_symbol = result_symbol0
         /\ brace_depth = brace_depth0

\* C3: entered with brace_depth 0, scan never reports InterpolationClose, and
\* brace_depth stays 0 unless InterpolationOpen is reported.
C3_NoCloseOutside ==
  op = "scan" /\ brace_depth0 = 0 =>
    /\ ~Emitted(STRING_INTERPOLATION_END)
    /\ brace_depth = 0 \/ Emitted(STRING_INTERPOLATION_START)

\* C4: a reported LiteralTextRun commits at least one character; at a quote,
\* a backslash, the end of input, or a `${` that InterpolationOpen is not
\* accepted for, scan declines.
C4_TextRunNonEmpty ==
  op = "scan" =>
    /\ Emitted(STRING_CONTENT) => markEnd > tokStart
    /\ Lookahead(text, tokStart) \in {Quote, Backslash, EndOfInput} => ~ret
    /\ AtOpener(tokStart) /\ STRING_INTERPOLATION_START \notin valid_symbols
         => ~ret

\* C4's case: LiteralTextRun is accepted at a `${` and scan declines.
C4_Witness ==
  /\ Declined
  /\ STRING_CONTENT \in valid_symbols
  /\ AtOpener(tokStart)

\* C5: the committed span of a reported LiteralTextRun holds no quote, no
\* backslash and no `$` that a `{` follows.
C5_TextRunStopsBefore ==
  Emitted(STRING_CONTENT) =>
    \A i \in (tokStart + 1)..markEnd :
      /\ text[i] # Quote
      /\ text[i] # Backslash
      /\ ~(text[i] = Dollar /\ Lookahead(text, i) = LBrace)

\* C5's case: a text run is reported that ends right before a `${`.
C5_Witness ==
  /\ Emitted(STRING_CONTENT)
  /\ markEnd > tokStart
  /\ AtOpener(markEnd)

\* What the four scans of the body t1 ${ e } t2 are to report, in order.
BodyTokens(txt) ==
  << [ret |-> TRUE, sym |-> STRING_CONTENT, from |-> 0, to |-> OpenAt(txt),
      depth |-> 0],
     [ret |-> TRUE, sym |-> STRING_INTERPOLATION_START, from |-> OpenAt(txt),
      to |-> OpenAt(txt) + 2, depth |-> 1],
     [ret |-> TRUE, sym |-> STRING_INTERPOLATION_END, from |-> CloseAt(txt),
      to |-> CloseAt(txt) + 1, depth |-> 0],
     [ret |-> TRUE, sym |-> STRING_CONTENT, from |-> CloseAt(txt) + 1,
      to |-> Len(txt) - 1, depth |-> 0] >>

\* C6: the scans of a body t1 ${ e } t2 from brace_depth 0 report, in order,
\* LiteralTextRun t1, InterpolationOpen `${` (brace_depth 1),
\* InterpolationClose `}` (brace_depth 0) and LiteralTextRun t2.
C6_BodySequence ==
  \A i \in 1..Len(toks) : toks[i] = BodyTokens(text)[i]

\* C7: deserializing the buffer serialize wrote leaves the session with the
\* brace_depth that was serialized, whatever it held; serialize writes
\* sizeof(int) bytes and leaves its session's brace_depth alone.
C7_RoundTrip ==
  /\ op = "deserialize" /\ length > 0 => brace_depth = saved
  /\ op = "serialize" =>
       /\ brace_depth = brace_depth0
       /\ saved = brace_depth
       /\ Len(buffer) = SizeofInt

\* C7's case: brace_depth 1 was restored into a session that held 0.
C7_Witness ==
  /\ op = "deserialize"
  /\ length > 0
  /\ saved = 1
  /\ brace_depth0 = 0
  /\ brace_depth = 1

\* C8: after deserialize with a zero-length buffer brace_depth is 0.
C8_EmptyBufferResets == op = "deserialize" /\ length = 0 => brace_depth = 0

\* C9: brace_depth is 0 or 1 in every state reached by scan, serialize and
\* deserialize (zero length, or the buffer serialize wrote).
C9_DepthIsFlag == brace_depth \in {0, 1}

\* C9's case: brace_depth 1 came back through the codec.
C9_Witness ==
  /\ op = "deserialize"
  /\ length > 0
  /\ brace_depth = 1

\* C10: a scan reporting InterpolationOpen leaves brace_depth 1, one reporting
\* InterpolationClose leaves 0, and one reporting LiteralTextRun or declining
\* leaves brace_depth as it was.
C10_DepthTransitions ==
  op = "scan" =>
    /\ Emitted(STRING_INTERPOLATION_START) => brace_depth = 1
    /\ Emitted(STRING_INTERPOLATION_END) => brace_depth = 0
    /\ Emitted(STRING_CONTENT) \/ ~ret => brace_depth = brace_depth0

\* C11: whenever scan reports success, it assigned lexer->result_symbol in
\* that call. The return at line 95 does not, so this is violated.
C11_SlotWritten == op = "scan" /\ ret => written

\* C12: the content loop makes at most (remaining input + 1) iterations, and
\* every iteration but the last advances the cursor by one character.
C12_LoopBounded ==
  op = "scan" =>
    /\ iters <= Len(text) - tokStart + 1
    /\ iters > 0 => pos - fellAt \in {iters - 1, iters}
    /\ pos <= Len(text)

\* C12's case: the loop ran over three characters to the end of input.
C12_Witness ==
  /\ op = "scan"
  /\ tokStart = 0
  /\ Len(text) >= 3
  /\ pos = Len(text)
  /\ iters = Len(text) + 1

\* C14: with InterpolationOpen accepted at `${`, scan reports
\* InterpolationOpen, commits exactly the two characters and leaves
\* brace_depth 1, whatever brace_depth was and whatever else is accepted.
C14_OpenerRecognized ==
  op = "scan" /\ STRING_INTERPOLATION_START \in valid_symbols
    /\ AtOpener(tokStart) =>
      /\ Emitted(STRING_INTERPOLATION_START)
      /\ written
      /\ markEnd = tokStart + 2
      /\ pos = tokStart + 2
      /\ brace_depth = 1

\* C14's case: a second opener, with every kind accepted and brace_depth 1.
C14_Witness ==
  /\ op = "scan"
  /\ valid_symbols = TokenTypes
  /\ AtOpener(tokStart)
  /\ brace_depth0 = 1
  /\ Emitted(STRING_INTERPOLATION_START)

\* C15: with InterpolationOpen accepted at a `$` that no `{` follows, the
\* branches after the InterpolationOpen branch start at the position the call
\* was entered with. The code has advanced over the `$`, so this is violated.
C15_OpenBranchConsumesNothing ==
  op = "scan" /\ STRING_INTERPOLATION_START \in valid_symbols
    /\ Lookahead(text, tokStart) = Dollar
    /\ Lookahead(text, tokStart + 1) # LBrace
    => fellAt = tokStart

\* C16: a reported InterpolationClose commits exactly the one character `}`
\* at the position the call was entered with (stated of the scans that
\* assigned the kind themselves, so that the violation is lines 63-71's own).
C16_CloseSpan ==
  Emitted(STRING_INTERPOLATION_END) /\ written =>
    /\ Lookahead(text, tokStart) = RBrace
    /\ markEnd = tokStart + 1

\* Where a text run from p stops: at a quote, a backslash, the end of input
\* or a `$` that a `{` follows.
StopsRun(txt, q) ==
  \/ Lookahead(txt, q) \in {Quote, Backslash, EndOfInput}
  \/ Lookahead(txt, q) = Dollar /\ Lookahead(txt, q + 1) = LBrace

\* The end of the longest prefix from p that holds no such stop.
PrefixEnd(txt, p) ==
  CHOOSE q \in p..Len(txt) :
    /\ StopsRun(txt, q)
    /\ \A r \in p..(q - 1) : ~StopsRun(txt, r)

\* C17: with LiteralTextRun the only accepted kind, scan commits the longest
\* prefix that holds no quote, backslash or `${` (a `$` no `{` follows is
\* content), and declines exactly when that prefix is empty.
C17_LongestPrefix ==
  op = "scan" /\ valid_symbols = {STRING_CONTENT} =>
    /\ ret <=> PrefixEnd(text, tokStart) > tokStart
    /\ ret => markEnd = PrefixEnd(text, tokStart)

\* C17's case: the body x$y is committed as one run.
C17_Witness ==
  /\ op = "scan"
  /\ valid_symbols = {STRING_CONTENT}
  /\ ret
  /\ Lookahead(text, tokStart + 1) = Dollar
  /\ markEnd = tokStart + 3

\* What the host sees of a call: the token and brace_depth, or the decline.
Outcome(r, sym, mark, depth) ==
  IF r THEN << TRUE, sym, mark, depth >> ELSE << FALSE, depth >>

\* The outcome of the same call with the accepted kinds vs.
OutcomeWith(vs) ==
  LET c == ScanCode(text, vs, Enter(tokStart, result_symbol0, brace_depth0))
  IN Outcome(c.ret, c.sym, c.mark, c.depth)

\* C18: where the input does not start with `${` and LiteralTextRun is
\* accepted, also accepting InterpolationOpen changes nothing of the outcome.
C18_OpenOfferedChangesNothing ==
  op = "scan"
    /\ {STRING_CONTENT, STRING_INTERPOLATION_START} \subseteq valid_symbols
    /\ ~AtOpener(tokStart)
    => Outcome(ret, result_symbol, markEnd, brace_depth)
         = OutcomeWith(valid_symbols \ {STRING_INTERPOLATION_START})

\* C19: whenever scan reports success, the cursor is at the end of the
\* committed span.
C19_CursorAtSpanEnd == op = "scan" /\ ret => pos = markEnd

(* --------------------------------- a session restored beside its original *)

\* Before the host snapshots it, the one session scans as in Spec.
TwinScanBefore == ~twin.live /\ Scan

\* The host snapshots the session.
TwinSerialize == ~twin.live /\ Serialize

\* Incremental re-lex: right after serialize the host creates a new session
\* (lines 15-19) and deserializes the buffer into it (lines 34-39), over a
\* text that may have been edited. The original session is kept as the twin,
\* with a cursor of its own in the same state.
TwinRestore ==
  /\ ~twin.live
  /\ op = "serialize"
  /\ text' \in CodecTexts
  /\ brace_depth' = DeserializeDepth(CreateDepth, buffer, Len(buffer))
  /\ length' = Len(buffer)
  /\ brace_depth0' = CreateDepth
  /\ twin' = [live |-> TRUE, depth |-> brace_depth, sym |-> result_symbol,
              ret |-> FALSE, mark |-> 0, opened |-> FALSE]
  /\ op' = "restore"
  /\ pos' = 0
  /\ markEnd' = 0
  /\ ret' = FALSE
  /\ valid_symbols' = {}
  /\ tokStart' = 0
  /\ result_symbol0' = result_symbol
  /\ iters' = 0
  /\ written' = FALSE
  /\ fellAt' = -1
  /\ UNCHANGED << result_symbol, buffer, saved, phase, toks, opens, closes >>

\* The same scan call on the restored session and on the original.
TwinScan ==
  /\ twin.live
  /\ \E p \in 0..Len(text), vs \in SUBSET TokenTypes :
       /\ ScanAt(p, vs)
       /\ \E c \in {ScanCode(text, vs, Enter(p, twin.sym, twin.depth))} :
            twin' = [live |-> TRUE, depth |-> c.depth, sym |-> c.sym,
                     ret |-> c.ret, mark |-> c.mark,
                     opened |-> twin.opened
                                  \/ (ret' /\ written'
                                      /\ result_symbol' = STRING_INTERPOLATION_START)]
  /\ UNCHANGED << phase, toks, opens, closes >>

TwinInit == InitOver(CodecTexts)

TwinNext == TwinScanBefore \/ TwinSerialize \/ TwinRestore \/ TwinScan

TwinSpec == TwinInit /\ [][TwinNext]_vars

(* ------------------------------------------ openers and closers, counted *)

\* The host calls scan anywhere in its text; the reports are counted.
FlagScan ==
  /\ \E p \in 0..Len(text), vs \in SUBSET TokenTypes : ScanAt(p, vs)
  /\ opens' = IF ret' /\ result_symbol' = STRING_INTERPOLATION_END THEN 0
              ELSE IF ret' /\ result_symbol' = STRING_INTERPOLATION_START
              THEN opens + 1
              ELSE opens
  /\ closes' = (IF brace_depth = 0 THEN 0 ELSE closes)
               + (IF ret' /\ result_symbol' = STRING_INTERPOLATION_END
                  THEN 1 ELSE 0)
  /\ opens' <= MaxOpens
  /\ closes' <= MaxCloses
  /\ UNCHANGED << phase, toks, twin >>

FlagInit == InitOver(Texts)

FlagNext == FlagScan

FlagSpec == FlagInit /\ [][FlagNext]_vars

\* C13: a session created and deserialized from another session's buffer
\* reports, scan after scan, the same kinds and spans as that session and
\* holds the same brace_depth.
C13_RestoredBehavesAlike ==
  twin.live =>
    /\ twin.depth = brace_depth
    /\ op = "scan" =>
         /\ twin.ret = ret
         /\ twin.sym = result_symbol
         /\ twin.mark = markEnd

\* C13's case: the restored brace_depth 1 lets InterpolationClose match a `}`
\* in a session that has reported no InterpolationOpen.
C13_Witness ==
  /\ twin.live
  /\ ~twin.opened
  /\ brace_depth0 = 1
  /\ Emitted(STRING_INTERPOLATION_END)
  /\ written

\* C20: brace_depth is a flag: after two InterpolationOpen reports with no
\* close between them it is 1, a reported InterpolationClose leaves it 0, a
\* scan at `}` from brace_depth 0 with only InterpolationClose accepted
\* declines, and at most one InterpolationClose is reported between two
\* visits to brace_depth 0.
C20_FlagNotCounter ==
  op = "scan" =>
    /\ opens >= 2 => brace_depth = 1
    /\ Emitted(STRING_INTERPOLATION_END) => brace_depth = 0
    /\ valid_symbols = {STRING_INTERPOLATION_END} /\ brace_depth0 = 0 => ~ret
    /\ closes <= 1

====
